---- MODULE Spec2Model ----
(***************************************************************************)
(* Model of KG_preprocessing.py: the CSV row validators, the three entity  *)
(* loaders, build_knowledge_graph, the JSON serialisation and main.        *)
(*                                                                         *)
(* A Python str is a sequence of one-character strings, None is the value  *)
(* NoneVal, a dict row is a function from column names to values, a file   *)
(* name is the sequence of its character codes.                            *)
(***************************************************************************)
EXTENDS Naturals, Sequences, FiniteSets, TLC

VARIABLES
    fs,          \* the input files: [gene, term, edge], fixed during the runs
    outFile,     \* the output path: [exists, data]
    run,         \* 1 or 2: which invocation of main is running
    pc,          \* position of main
    genes,       \* accumulator of load_gene_nodes, then gene_nodes of main
    terms,       \* accumulator of load_term_nodes, then term_nodes of main
    edges,       \* accumulator of load_edges, then edges of main
    rows,        \* rows = list(_read_csv_rows(gene_node_path)) of load_gene_nodes
    files,       \* term_files / edge_files of the running directory loader
    fpos,        \* number of files of `files` opened so far
    pos,         \* number of rows of the open file processed so far
    stdout,      \* the lines printed by this run
    payload,     \* kg_payload of main
    exc,         \* the exception that ended the run, "none" while there is none
    before,      \* what the output path held when this run started
    firstOut     \* what the output path held when the first run ended

vars == <<fs, outFile, run, pc, genes, terms, edges, rows, files, fpos, pos,
          stdout, payload, exc, before, firstOut>>

----------------------------------------------------------------------------
(* Bounds of the enumerated inputs *)

\* most records in the gene file
MaxRows == 3
\* most records in the CSV files of one directory, taken together
MaxDirRows == 2

----------------------------------------------------------------------------
(* Python values *)

NoneVal == <<"None">>
RestKey == "None"

Range(s) == {s[i] : i \in 1..Len(s)}

\* `not v` of Python for v a str or None
Falsy(v) == v = NoneVal \/ v = <<>>

\* row.get(key): the value, or None when the key is not in the dict
Get(row, key) == IF key \in DOMAIN row THEN row[key] ELSE NoneVal

Raise(msg) == [ok |-> FALSE, exc |-> msg]
Return(v) == [ok |-> TRUE, val |-> v]

----------------------------------------------------------------------------
(* The row validators *)

\* label.strip()
RECURSIVE LStrip(_)
LStrip(v) == IF v # <<>> /\ Head(v) = " " THEN LStrip(Tail(v)) ELSE v
RECURSIVE RStrip(_)
RStrip(v) == IF v # <<>> /\ v[Len(v)] = " " THEN RStrip(SubSeq(v, 1, Len(v) - 1)) ELSE v

GeneNodeStripped(row) ==
    LET label == Get(row, "label")
    IN  IF Falsy(label) THEN Raise("Gene row is missing required 'label' column")
        ELSE Return([label |-> LStrip(RStrip(label))])

GeneNodeAcceptsEmpty(row) ==
    LET label == Get(row, "label")
    IN  IF label = NoneVal THEN Raise("Gene row is missing required 'label' column")
        ELSE Return([label |-> label])

GeneNode_from_row(row) ==
    LET label == Get(row, "label")
    IN  IF Falsy(label) THEN Raise("Gene row is missing required 'label' column")
        ELSE Return([label |-> label])

TermNode_from_row(row) ==
    LET label == Get(row, "label")
    IN  IF Falsy(label) THEN Raise("Term row is missing required 'label' column")
        ELSE Return([label |-> label])

Edge_from_row(row) ==
    LET source_label == Get(row, "source_label")
        relation == Get(row, "relation")
        target_label == Get(row, "target_label")
    IN  IF Falsy(source_label) \/ Falsy(relation) \/ Falsy(target_label)
        THEN Raise("Edge row is missing required 'source_label', 'relation', or 'target_label' column")
        ELSE Return([source_label |-> source_label, relation |-> relation,
                     target_label |-> target_label])

----------------------------------------------------------------------------
(* csv.DictReader over a file [header, records] *)

\* one dict per record: the header's names zipped with the record's fields,
\* None for the fields a short record lacks, the surplus fields of a long
\* record under the key None
DictRow(header, rec) ==
    [k \in Range(header) \cup (IF Len(rec) > Len(header) THEN {RestKey} ELSE {}) |->
        IF k = RestKey /\ Len(rec) > Len(header)
        THEN SubSeq(rec, Len(header) + 1, Len(rec))
        ELSE LET i == CHOOSE j \in 1..Len(header) :
                          /\ header[j] = k
                          /\ \A m \in (j+1)..Len(header) : header[m] # k
             IN  IF i <= Len(rec) THEN rec[i] ELSE NoneVal]

NotBlank(rec) == rec # <<>>

\* the rows _read_csv_rows yields: blank records are skipped by DictReader
read_csv_rows(file) ==
    LET recs == SelectSeq(file.records, NotBlank)
    IN  [i \in 1..Len(recs) |-> DictRow(file.header, recs[i])]

----------------------------------------------------------------------------
(* Paths, Path.glob and sorted *)

\* character codes of the file names
Name10csv == <<49, 48, 46, 99, 115, 118>>
Name9csv == <<57, 46, 99, 115, 118>>
Name9txt == <<57, 46, 116, 120, 116>>
GeneFileName == <<71, 46, 99, 115, 118>>
OutputName == <<75, 46, 106, 115, 111, 110>>
DotCsv == <<46, 99, 115, 118>>

\* fnmatch of a name against "*.csv"
MatchesCsv(name) ==
    /\ Len(name) >= Len(DotCsv)
    /\ SubSeq(name, Len(name) - Len(DotCsv) + 1, Len(name)) = DotCsv

glob_all(dir) == IF dir.exists THEN DOMAIN dir.entries ELSE {}

\* term_dir.glob("*.csv"): the matching entries; none for a missing directory
glob(dir) == IF dir.exists THEN {n \in DOMAIN dir.entries : MatchesCsv(n)} ELSE {}

\* the orders in which the directory scan may hand out a set of names
Orders(S) == {s \in [1..Cardinality(S) -> S] : Range(s) = S}

ShorterFirst(a, b) ==
    IF Len(a) # Len(b) THEN Len(a) < Len(b)
    ELSE \E k \in 1..Len(a) : a[k] < b[k] /\ \A i \in 1..(k - 1) : a[i] = b[i]

\* a < b for two paths of one directory: code point order of the names
RECURSIVE PathLess(_, _)
PathLess(a, b) ==
    IF b = <<>> THEN FALSE
    ELSE IF a = <<>> THEN TRUE
    ELSE IF Head(a) # Head(b) THEN Head(a) < Head(b)
    ELSE PathLess(Tail(a), Tail(b))

RECURSIVE Insert(_, _)
Insert(x, s) ==
    IF s = <<>> THEN <<x>>
    ELSE IF PathLess(x, Head(s)) THEN <<x>> \o s
    ELSE <<Head(s)>> \o Insert(x, Tail(s))

RECURSIVE SortPaths(_)
SortPaths(s) == IF s = <<>> THEN <<>> ELSE Insert(Head(s), SortPaths(Tail(s)))

Unsorted(s) == s

sorted(s) == SortPaths(s)

----------------------------------------------------------------------------
(* The enumerated input files *)

Empty == <<>>
Blank == <<" ">>
A == <<"a">>
X == <<"x">>

NodeHeader == <<"id", "label">>
EdgeHeader == <<"source_label", "relation", "target_label">>

\* a blank line, a record without the label field, an empty label, a label of
\* one space, a label followed by a surplus field
NodeRecords == {<<>>, <<X>>, <<X, Empty>>, <<X, Blank>>, <<X, A, X>>}

\* a blank line, each required field empty or lacking in turn, a triple with a
\* field of one space, a triple followed by a surplus field
EdgeRecords == {<<>>, <<Empty, A, A>>, <<A, Empty, A>>, <<A, A>>,
                <<A, A, Blank>>, <<Blank, A, A, X>>}

SeqsUpTo(S, n) == UNION {[1..k -> S] : k \in 0..n}

Files(header, records, n) ==
    {[header |-> header, records |-> r] : r \in SeqsUpTo(records, n)}

MissingDir == [exists |-> FALSE, entries |-> <<>>]

CsvEntries(header, records, n) ==
    {e \in UNION {[D -> Files(header, records, n)] : D \in SUBSET {Name10csv, Name9csv}} :
        LET len(name) == IF name \in DOMAIN e THEN Len(e[name].records) ELSE 0
        IN  len(Name10csv) + len(Name9csv) <= n}

\* a missing directory, and the directories that hold some of 10.csv and 9.csv,
\* with at most n records together, and perhaps 9.txt, which is no CSV
Dirs(header, records, n, other) ==
    {MissingDir} \cup
    {[exists |-> TRUE, entries |-> e] : e \in CsvEntries(header, records, n)} \cup
    {[exists |-> TRUE, entries |-> e @@ (Name9txt :> other)] :
        e \in CsvEntries(header, records, n)}

GeneFiles == Files(NodeHeader, NodeRecords, MaxRows)
TermDirs == Dirs(NodeHeader, NodeRecords, MaxDirRows,
                 [header |-> NodeHeader, records |-> <<<<X, A>>>>])
EdgeDirs == Dirs(EdgeHeader, EdgeRecords, MaxDirRows,
                 [header |-> EdgeHeader, records |-> <<<<A, A, A>>>>])

\* a plain layout of each source
PlainGene == [header |-> NodeHeader, records |-> <<<<X, A>>>>]
PlainTerms == [exists |-> TRUE, entries |->
                  (Name9csv :> [header |-> NodeHeader, records |-> <<<<X, Blank>>>>])]
PlainEdges == [exists |-> TRUE, entries |->
                  (Name9csv :> [header |-> EdgeHeader, records |-> <<<<A, A, A>>>>])]

\* the enumerated inputs: all of one source's layouts beside plain layouts of
\* the other two
InputSystems ==
    {[gene |-> g, term |-> PlainTerms, edge |-> PlainEdges] : g \in GeneFiles} \cup
    {[gene |-> PlainGene, term |-> t, edge |-> PlainEdges] : t \in TermDirs} \cup
    {[gene |-> PlainGene, term |-> PlainTerms, edge |-> e] : e \in EdgeDirs}

----------------------------------------------------------------------------
(* build_knowledge_graph and json.dump *)

\* a dict is the sequence of its <<key, value>> items in insertion order
GeneDict(g) == << <<"label", g.label>> >>
TermDict(t) == << <<"label", t.label>> >>
EdgeDict(e) == << <<"source_label", e.source_label>>, <<"relation", e.relation>>,
                  <<"target_label", e.target_label>> >>

MiscountedGraph(gene_nodes, term_nodes, edge_list) ==
    << <<"counts", << <<"genes", Len(gene_nodes)>>, <<"terms", Len(term_nodes)>>,
                      <<"triples", Len(term_nodes)>> >> >>,
       <<"genes", [i \in 1..Len(gene_nodes) |-> GeneDict(gene_nodes[i])]>>,
       <<"terms", [i \in 1..Len(term_nodes) |-> TermDict(term_nodes[i])]>>,
       <<"triples", [i \in 1..Len(edge_list) |-> EdgeDict(edge_list[i])]>> >>

build_knowledge_graph(gene_nodes, term_nodes, edge_list) ==
    << <<"counts", << <<"genes", Len(gene_nodes)>>, <<"terms", Len(term_nodes)>>,
                      <<"triples", Len(edge_list)>> >> >>,
       <<"genes", [i \in 1..Len(gene_nodes) |-> GeneDict(gene_nodes[i])]>>,
       <<"terms", [i \in 1..Len(term_nodes) |-> TermDict(term_nodes[i])]>>,
       <<"triples", [i \in 1..Len(edge_list) |-> EdgeDict(edge_list[i])]>> >>

\* d[key] of a dict
Item(d, key) == d[CHOOSE i \in 1..Len(d) : d[i][1] = key][2]
Keys(d) == [i \in 1..Len(d) |-> d[i][1]]

RECURSIVE Concat(_)
Concat(ss) == IF ss = <<>> THEN <<>> ELSE Head(ss) \o Concat(Tail(ss))

\* the chunk sequences ss with the chunk "," between them
RECURSIVE Joined(_)
Joined(ss) ==
    IF ss = <<>> THEN <<>>
    ELSE IF Len(ss) = 1 THEN Head(ss)
    ELSE Head(ss) \o << <<",">> >> \o Joined(Tail(ss))

\* One chunk is the sequence of the characters (or words) of one string that
\* the encoder yields; the white space chunks of indent=2 are left out.

\* a str value: its characters between quotes, none escaped (ensure_ascii=False)
JsonStr(chars) == << <<"\"">> \o chars \o <<"\"">> >>
JsonKey(k) == << <<"\"", k, "\"">>, <<":">> >>

\* a dict whose values are str
JsonEntity(d) ==
    << <<"{">> >> \o Joined([i \in 1..Len(d) |-> JsonKey(d[i][1]) \o JsonStr(d[i][2])])
                 \o << <<"}">> >>
\* a dict whose values are int
JsonCounts(d) ==
    << <<"{">> >> \o Joined([i \in 1..Len(d) |-> JsonKey(d[i][1]) \o << <<ToString(d[i][2])>> >>])
                 \o << <<"}">> >>
JsonList(l) ==
    IF l = <<>> THEN << <<"[]">> >>
    ELSE << <<"[">> >> \o Joined([i \in 1..Len(l) |-> JsonEntity(l[i])]) \o << <<"]">> >>

\* the chunks json.dump writes for the payload
json_dump(p) ==
    << <<"{">> >> \o Joined([i \in 1..Len(p) |->
                     JsonKey(p[i][1]) \o (IF p[i][1] = "counts" THEN JsonCounts(p[i][2])
                                          ELSE JsonList(p[i][2]))]) \o << <<"}">> >>

----------------------------------------------------------------------------
(* The loaders and main *)

NoFile == [exists |-> FALSE, data |-> <<>>]

Init ==
    /\ fs \in InputSystems
    /\ outFile = NoFile
    /\ run = 1
    /\ pc = "load_genes"
    /\ genes = <<>>
    /\ terms = <<>>
    /\ edges = <<>>
    /\ rows = <<>>
    /\ files = <<>>
    /\ fpos = 0
    /\ pos = 0
    /\ stdout = <<>>
    /\ payload = <<>>
    /\ exc = "none"
    /\ before = NoFile
    /\ firstOut = NoFile

row_index_from_zero(p) == p

\* idx of enumerate(rows, start=1) for the row after p processed rows
row_index(p) == p + 1

skip_line(what, i, path, res) == [msg |-> what, idx |-> i, path |-> path, exc |-> res.exc]

append_or_raise(acc, res) ==
    [acc |-> IF res.ok THEN Append(acc, res.val) ELSE acc, raised |-> ~res.ok]

\* try: acc.append(from_row(row)) / except ValueError: the row is left out
try_append(acc, res) ==
    [acc |-> IF res.ok THEN Append(acc, res.val) ELSE acc, raised |-> FALSE]

\* the print of the except branch
printed(res, what, path) ==
    IF res.ok THEN stdout
    ELSE Append(stdout, skip_line(what, row_index(pos), path, res))

swallowed == "build"

\* where main is after a read raised: nothing catches OSError or UnicodeError
read_error_pc == "aborted"

(* load_gene_nodes *)

load_gene_nodes_read ==
    /\ pc = "load_genes"
    /\ rows' = read_csv_rows(fs.gene)
    /\ genes' = <<>>
    /\ pos' = 0
    /\ pc' = "gene_loop"
    /\ UNCHANGED <<fs, outFile, run, terms, edges, files, fpos, stdout, payload, exc,
                   before, firstOut>>

load_gene_nodes_read_error ==
    /\ pc = "load_genes"
    /\ exc' = "read_gene"
    /\ pc' = read_error_pc
    /\ UNCHANGED <<fs, outFile, run, genes, terms, edges, rows, files, fpos, pos, stdout,
                   payload, before, firstOut>>

load_gene_nodes_row ==
    /\ pc = "gene_loop"
    /\ pos < Len(rows)
    /\ LET res == GeneNode_from_row(rows[pos + 1])
           out == try_append(genes, res)
       IN  /\ genes' = out.acc
           /\ stdout' = printed(res, "Skipping invalid gene row", GeneFileName)
           /\ pc' = IF out.raised THEN "aborted" ELSE pc
           /\ exc' = IF out.raised THEN "ValueError" ELSE exc
    /\ pos' = pos + 1
    /\ UNCHANGED <<fs, outFile, run, terms, edges, rows, files, fpos, payload, before,
                   firstOut>>

load_gene_nodes_return ==
    /\ pc = "gene_loop"
    /\ pos = Len(rows)
    /\ pc' = "load_terms"
    /\ UNCHANGED <<fs, outFile, run, genes, terms, edges, rows, files, fpos, pos, stdout,
                   payload, exc, before, firstOut>>

\* the rows of the file the directory loader has open
OpenRows(dir) == read_csv_rows(dir.entries[files[fpos]])
AtEndOfFile(dir) == IF fpos = 0 THEN TRUE ELSE pos = Len(OpenRows(dir))

(* load_term_nodes *)

load_term_nodes_glob ==
    /\ pc = "load_terms"
    /\ \E order \in Orders(glob(fs.term)) : files' = sorted(order)
    /\ terms' = <<>>
    /\ fpos' = 0
    /\ pos' = 0
    /\ pc' = "term_loop"
    /\ UNCHANGED <<fs, outFile, run, genes, edges, rows, stdout, payload, exc, before,
                   firstOut>>

load_term_nodes_next_file ==
    /\ pc = "term_loop"
    /\ AtEndOfFile(fs.term)
    /\ fpos < Len(files)
    /\ fpos' = fpos + 1
    /\ pos' = 0
    /\ UNCHANGED <<fs, outFile, run, pc, genes, terms, edges, rows, files, stdout, payload,
                   exc, before, firstOut>>

load_term_nodes_read_error ==
    /\ pc = "term_loop"
    /\ fpos >= 1
    /\ exc' = "read_term"
    /\ pc' = read_error_pc
    /\ UNCHANGED <<fs, outFile, run, genes, terms, edges, rows, files, fpos, pos, stdout,
                   payload, before, firstOut>>

load_term_nodes_row ==
    /\ pc = "term_loop"
    /\ fpos >= 1
    /\ pos < Len(OpenRows(fs.term))
    /\ LET res == TermNode_from_row(OpenRows(fs.term)[pos + 1])
           out == try_append(terms, res)
       IN  /\ terms' = out.acc
           /\ stdout' = printed(res, "Skipping invalid term row", files[fpos])
           /\ pc' = IF out.raised THEN "aborted" ELSE pc
           /\ exc' = IF out.raised THEN "ValueError" ELSE exc
    /\ pos' = pos + 1
    /\ UNCHANGED <<fs, outFile, run, genes, edges, rows, files, fpos, payload, before,
                   firstOut>>

load_term_nodes_return ==
    /\ pc = "term_loop"
    /\ AtEndOfFile(fs.term)
    /\ fpos = Len(files)
    /\ pc' = "load_edges"
    /\ UNCHANGED <<fs, outFile, run, genes, terms, edges, rows, files, fpos, pos, stdout,
                   payload, exc, before, firstOut>>

(* load_edges *)

load_edges_glob ==
    /\ pc = "load_edges"
    /\ \E order \in Orders(glob(fs.edge)) : files' = sorted(order)
    /\ edges' = <<>>
    /\ fpos' = 0
    /\ pos' = 0
    /\ pc' = "edge_loop"
    /\ UNCHANGED <<fs, outFile, run, genes, terms, rows, stdout, payload, exc, before,
                   firstOut>>

load_edges_next_file ==
    /\ pc = "edge_loop"
    /\ AtEndOfFile(fs.edge)
    /\ fpos < Len(files)
    /\ fpos' = fpos + 1
    /\ pos' = 0
    /\ UNCHANGED <<fs, outFile, run, pc, genes, terms, edges, rows, files, stdout, payload,
                   exc, before, firstOut>>

load_edges_read_error ==
    /\ pc = "edge_loop"
    /\ fpos >= 1
    /\ exc' = "read_edge"
    /\ pc' = read_error_pc
    /\ UNCHANGED <<fs, outFile, run, genes, terms, edges, rows, files, fpos, pos, stdout,
                   payload, before, firstOut>>

load_edges_row ==
    /\ pc = "edge_loop"
    /\ fpos >= 1
    /\ pos < Len(OpenRows(fs.edge))
    /\ LET res == Edge_from_row(OpenRows(fs.edge)[pos + 1])
           out == try_append(edges, res)
       IN  /\ edges' = out.acc
           /\ stdout' = printed(res, "Skipping invalid edge row", files[fpos])
           /\ pc' = IF out.raised THEN "aborted" ELSE pc
           /\ exc' = IF out.raised THEN "ValueError" ELSE exc
    /\ pos' = pos + 1
    /\ UNCHANGED <<fs, outFile, run, genes, terms, rows, files, fpos, payload, before,
                   firstOut>>

load_edges_return ==
    /\ pc = "edge_loop"
    /\ AtEndOfFile(fs.edge)
    /\ fpos = Len(files)
    /\ pc' = "build"
    /\ UNCHANGED <<fs, outFile, run, genes, terms, edges, rows, files, fpos, pos, stdout,
                   payload, exc, before, firstOut>>

(* main after the loaders *)

main_build ==
    /\ pc = "build"
    /\ payload' = build_knowledge_graph(genes, terms, edges)
    /\ pc' = "open_output"
    /\ UNCHANGED <<fs, outFile, run, genes, terms, edges, rows, files, fpos, pos, stdout,
                   exc, before, firstOut>>

\* output_path.parent.mkdir and output_path.open("w"): the file is created or truncated
main_open_output ==
    /\ pc = "open_output"
    /\ outFile' = [exists |-> TRUE, data |-> <<>>]
    /\ pc' = "dump"
    /\ UNCHANGED <<fs, run, genes, terms, edges, rows, files, fpos, pos, stdout, payload,
                   exc, before, firstOut>>

main_open_output_error ==
    /\ pc = "open_output"
    /\ exc' = "create"
    /\ pc' = "aborted"
    /\ UNCHANGED <<fs, outFile, run, genes, terms, edges, rows, files, fpos, pos, stdout,
                   payload, before, firstOut>>

\* json.dump writes every chunk, the file is closed, the closing line is printed
main_dump ==
    /\ pc = "dump"
    /\ outFile' = [exists |-> TRUE, data |-> json_dump(payload)]
    /\ stdout' = Append(stdout, [msg |-> "Compact knowledge graph written to",
                                 idx |-> 0, path |-> OutputName, exc |-> "none"])
    /\ pc' = "done"
    /\ UNCHANGED <<fs, run, genes, terms, edges, rows, files, fpos, pos, payload, exc,
                   before, firstOut>>

\* a write fails after some of the chunks reached the file
main_dump_error ==
    /\ pc = "dump"
    /\ \E k \in 0..(Len(json_dump(payload)) - 1) :
          outFile' = [exists |-> TRUE, data |-> SubSeq(json_dump(payload), 1, k)]
    /\ exc' = "write"
    /\ pc' = "aborted"
    /\ UNCHANGED <<fs, run, genes, terms, edges, rows, files, fpos, pos, stdout, payload,
                   before, firstOut>>

\* main is invoked once more over the same input files
main_again ==
    /\ pc = "done"
    /\ run = 1
    /\ run' = 2
    /\ pc' = "load_genes"
    /\ genes' = <<>>
    /\ terms' = <<>>
    /\ edges' = <<>>
    /\ rows' = <<>>
    /\ files' = <<>>
    /\ fpos' = 0
    /\ pos' = 0
    /\ stdout' = <<>>
    /\ payload' = <<>>
    /\ before' = outFile
    /\ firstOut' = outFile
    /\ UNCHANGED <<fs, outFile, exc>>

Next ==
    \/ load_gene_nodes_read
    \/ load_gene_nodes_read_error
    \/ load_gene_nodes_row
    \/ load_gene_nodes_return
    \/ load_term_nodes_glob
    \/ load_term_nodes_next_file
    \/ load_term_nodes_read_error
    \/ load_term_nodes_row
    \/ load_term_nodes_return
    \/ load_edges_glob
    \/ load_edges_next_file
    \/ load_edges_read_error
    \/ load_edges_row
    \/ load_edges_return
    \/ main_build
    \/ main_open_output
    \/ main_open_output_error
    \/ main_dump
    \/ main_dump_error
    \/ main_again

Spec == Init /\ [][Next]_vars

----------------------------------------------------------------------------
(* What the claims speak of *)

Validate(kind, row) ==
    CASE kind = "gene" -> GeneNode_from_row(row)
      [] kind = "term" -> TermNode_from_row(row)
      [] kind = "edge" -> Edge_from_row(row)

RequiredFields(kind) ==
    IF kind = "edge" THEN {"source_label", "relation", "target_label"} ELSE {"label"}

\* the entities of the rows of s that the validator accepts, in the order of s
Accepted(kind, s) ==
    LET IsOk(r) == Validate(kind, r).ok
        good == SelectSeq(s, IsOk)
    IN  [i \in 1..Len(good) |-> Validate(kind, good[i]).val]

\* the lines printed for the rows of s that the validator rejects, s being
\* the rows of the file at path
Skips(kind, what, s, path) ==
    LET bad == SelectSeq([i \in 1..Len(s) |-> i], LAMBDA i : ~Validate(kind, s[i]).ok)
    IN  [j \in 1..Len(bad) |->
            [msg |-> what, idx |-> bad[j], path |-> path, exc |-> Validate(kind, s[bad[j]]).exc]]

\* a before b in code point order, stated without recursion
CodePointBefore(a, b) ==
    \E k \in 1..(Len(b)) :
        /\ k <= Len(a) + 1
        /\ \A i \in 1..(k - 1) : a[i] = b[i]
        /\ (k = Len(a) + 1 \/ a[k] < b[k])

CsvNames(dir) == IF dir.exists THEN {n \in DOMAIN dir.entries : MatchesCsv(n)} ELSE {}
NoCsv(dir) == ~dir.exists \/ \A n \in DOMAIN dir.entries : ~MatchesCsv(n)

\* the CSV files of the directory in lexicographic order of their names
InNameOrder(dir) ==
    CHOOSE s \in Orders(CsvNames(dir)) :
        \A i, j \in 1..Len(s) : i < j => CodePointBefore(s[i], s[j])

RowsOfFiles(dir, names) == Concat([i \in 1..Len(names) |-> read_csv_rows(dir.entries[names[i]])])

\* the rows the running directory loader has processed so far
DoneRows(dir) ==
    IF fpos = 0 THEN <<>>
    ELSE RowsOfFiles(dir, SubSeq(files, 1, fpos - 1)) \o SubSeq(OpenRows(dir), 1, pos)

\* the lines the running directory loader should have printed so far
DoneSkips(kind, what, dir) ==
    IF fpos = 0 THEN <<>>
    ELSE Concat([i \in 1..(fpos - 1) |->
                    Skips(kind, what, read_csv_rows(dir.entries[files[i]]), files[i])])
         \o Skips(kind, what, SubSeq(OpenRows(dir), 1, pos), files[fpos])

LinesOf(what) == SelectSeq(stdout, LAMBDA l : l.msg = what)

AfterTerms == {"load_edges", "edge_loop", "build", "open_output", "dump", "done"}
AfterEdges == {"build", "open_output", "dump", "done"}
Built == {"open_output", "dump", "done"}

----------------------------------------------------------------------------
(* C1 *)

\* C1: in every document build_knowledge_graph produced, and in the output
\* written from it, counts.genes, counts.terms and counts.triples are the
\* lengths of the genes, terms and triples lists.
C1_CountsAreLengths ==
    /\ pc \in Built =>
          /\ Item(Item(payload, "counts"), "genes") = Len(Item(payload, "genes"))
          /\ Item(Item(payload, "counts"), "terms") = Len(Item(payload, "terms"))
          /\ Item(Item(payload, "counts"), "triples") = Len(Item(payload, "triples"))
          /\ Len(Item(payload, "genes")) = Len(genes)
          /\ Len(Item(payload, "terms")) = Len(terms)
          /\ Len(Item(payload, "triples")) = Len(edges)
    /\ pc = "done" => outFile = [exists |-> TRUE, data |-> json_dump(payload)]

C1_Witness ==
    /\ pc = "done"
    /\ Len(Item(payload, "genes")) = 1
    /\ Len(Item(payload, "terms")) = 1
    /\ Len(Item(payload, "triples")) = 2

----------------------------------------------------------------------------
(* C2 *)

\* C2: in each loader a row that fails validation is left out and never ends
\* the load: no ValueError leaves a loader, and at every point of a load the
\* accumulated sequence holds exactly the accepted rows among the rows
\* processed so far, of this file and of the files before it.
C2_BadRowNeverAborts ==
    /\ exc # "ValueError"
    /\ pc = "gene_loop" => genes = Accepted("gene", SubSeq(rows, 1, pos))
    /\ pc = "load_terms" => genes = Accepted("gene", read_csv_rows(fs.gene))
    /\ pc = "term_loop" => terms = Accepted("term", DoneRows(fs.term))
    /\ pc = "load_edges" =>
          /\ Range(files) = CsvNames(fs.term)
          /\ terms = Accepted("term", RowsOfFiles(fs.term, files))
    /\ pc = "edge_loop" => edges = Accepted("edge", DoneRows(fs.edge))
    /\ pc = "build" =>
          /\ Range(files) = CsvNames(fs.edge)
          /\ edges = Accepted("edge", RowsOfFiles(fs.edge, files))

\* an invalid row of the first term file was skipped and a valid row of the
\* second file was still loaded
C2_Witness ==
    /\ pc = "load_edges"
    /\ Len(files) = 2
    /\ Len(LinesOf("Skipping invalid term row")) = 1
    /\ LinesOf("Skipping invalid term row")[1].path = files[1]
    /\ Len(terms) = 1
    /\ Len(read_csv_rows(fs.term.entries[files[2]])) = 1

----------------------------------------------------------------------------
(* C3 *)

OnlyWhitespace(v) == v # NoneVal /\ \A i \in 1..Len(v) : v[i] = " "
AbsentOrEmpty(v) == v = NoneVal \/ v = <<>>

\* the row the running loader processed last, and its kind
LastKind ==
    CASE pc = "gene_loop" -> "gene" [] pc = "term_loop" -> "term" [] pc = "edge_loop" -> "edge"
      [] OTHER -> "none"
HasLastRow ==
    \/ pc = "gene_loop" /\ pos >= 1
    \/ pc \in {"term_loop", "edge_loop"} /\ fpos >= 1 /\ pos >= 1
LastRow ==
    CASE pc = "gene_loop" -> rows[pos]
      [] pc = "term_loop" -> OpenRows(fs.term)[pos]
      [] pc = "edge_loop" -> OpenRows(fs.edge)[pos]

\* the values of the dicts of a list of the payload
DictValues(l) == UNION {{l[i][j][2] : j \in 1..Len(l[i])} : i \in 1..Len(l)}

\* every field of every entity of the three sequences and of the payload
LoadedFields ==
    {genes[i].label : i \in 1..Len(genes)} \cup {terms[i].label : i \in 1..Len(terms)}
    \cup UNION {{edges[i].source_label, edges[i].relation, edges[i].target_label} :
                    i \in 1..Len(edges)}
    \cup (IF pc \in Built
          THEN DictValues(Item(payload, "genes")) \cup DictValues(Item(payload, "terms"))
               \cup DictValues(Item(payload, "triples"))
          ELSE {})

\* C3 as stated: the validator fails for every row with a required field
\* that is absent, empty or made only of whitespace, and no loaded entity has
\* such a field.
C3_RejectsWhitespaceOnly ==
    /\ HasLastRow =>
          ((\E f \in RequiredFields(LastKind) :
                Get(LastRow, f) = NoneVal \/ OnlyWhitespace(Get(LastRow, f)))
             => ~Validate(LastKind, LastRow).ok)
    /\ \A v \in LoadedFields : v # NoneVal /\ ~OnlyWhitespace(v)

\* C3 amended: the validator fails exactly for the rows with a required
\* field that is absent or the empty string (a field made only of whitespace
\* is accepted), and no loaded entity has a required field that is absent or
\* empty.
C3_RejectsAbsentOrEmpty ==
    /\ HasLastRow =>
          ((\E f \in RequiredFields(LastKind) : AbsentOrEmpty(Get(LastRow, f)))
             <=> ~Validate(LastKind, LastRow).ok)
    /\ \A v \in LoadedFields : ~AbsentOrEmpty(v)

\* a gene row with an empty label was rejected after a row whose label is one
\* space was accepted
C3_Witness ==
    /\ pc = "gene_loop"
    /\ pos = 2
    /\ Get(rows[1], "label") = Blank
    /\ Get(rows[2], "label") = Empty
    /\ genes = <<[label |-> Blank]>>
    /\ Len(stdout) = 1

----------------------------------------------------------------------------
(* C4 *)

\* C4: the terms and the triples of the document are the accepted rows of
\* the directory's *.csv files, the files in lexicographic order of their
\* names and the rows of a file in file order, duplicates kept.
C4_FileThenRowOrder ==
    /\ pc \in AfterTerms =>
          terms = Accepted("term", RowsOfFiles(fs.term, InNameOrder(fs.term)))
    /\ pc \in AfterEdges =>
          edges = Accepted("edge", RowsOfFiles(fs.edge, InNameOrder(fs.edge)))
    /\ pc \in Built =>
          /\ Item(payload, "genes") = [i \in 1..Len(genes) |-> GeneDict(genes[i])]
          /\ Item(payload, "terms") = [i \in 1..Len(terms) |-> TermDict(terms[i])]
          /\ Item(payload, "triples") = [i \in 1..Len(edges) |-> EdgeDict(edges[i])]

\* 10.csv and 9.csv each gave one term, the one of 10.csv first, and the
\* label of the gene is also the label of a term
C4_Witness ==
    /\ pc = "done"
    /\ CsvNames(fs.term) = {Name10csv, Name9csv}
    /\ Len(terms) = 2
    /\ Len(read_csv_rows(fs.term.entries[Name10csv])) = 1
    /\ Len(read_csv_rows(fs.term.entries[Name9csv])) = 1
    /\ terms[1] = Accepted("term", read_csv_rows(fs.term.entries[Name10csv]))[1]
    /\ terms[2] = Accepted("term", read_csv_rows(fs.term.entries[Name9csv]))[1]
    /\ terms[1] # terms[2]
    /\ \E i \in 1..2 : terms[i].label = genes[1].label

----------------------------------------------------------------------------
(* C5 *)

\* C5: every field of the entity made from an accepted row is the value of
\* the column of that name in the row, unchanged; the entity has no other
\* field, and the payload holds the same values.
C5_FieldsVerbatim ==
    /\ HasLastRow /\ (\A f \in RequiredFields(LastKind) : ~AbsentOrEmpty(Get(LastRow, f))) =>
          LET acc == CASE LastKind = "gene" -> genes [] LastKind = "term" -> terms
                       [] LastKind = "edge" -> edges
              e == acc[Len(acc)]
          IN  /\ acc # <<>>
              /\ DOMAIN e = RequiredFields(LastKind)
              /\ \A f \in RequiredFields(LastKind) : e[f] = LastRow[f]
    /\ pc \in Built =>
          /\ \A i \in 1..Len(genes) : Item(Item(payload, "genes")[i], "label") = genes[i].label
          /\ \A i \in 1..Len(terms) : Item(Item(payload, "terms")[i], "label") = terms[i].label
          /\ \A i \in 1..Len(edges) : \A f \in RequiredFields("edge") :
                Item(Item(payload, "triples")[i], f) = edges[i][f]

\* an edge row with a source of one space and a surplus field was accepted
C5_Witness ==
    /\ pc = "edge_loop"
    /\ HasLastRow
    /\ RestKey \in DOMAIN LastRow
    /\ LastRow["source_label"] = Blank
    /\ edges # <<>>
    /\ edges[Len(edges)] = [source_label |-> Blank, relation |-> A, target_label |-> A]

----------------------------------------------------------------------------
(* C6 *)

ReadErrors == {"read_gene", "read_term", "read_edge"}

\* C6: a failed read of any source ends the run with the output path as it
\* was before the run, and the output path changes only after the three
\* loaders have returned.
C6_ReadErrorLeavesOutput ==
    /\ exc \in ReadErrors => pc = "aborted" /\ outFile = before
    /\ outFile # before => pc \in {"dump", "done"} \/ (pc = "aborted" /\ exc = "write")
    /\ pc \in {"open_output", "dump", "done"} => exc = "none"

\* the second run fails reading an edge file after the terms were loaded; the
\* document of the first run is still at the output path
C6_Witness ==
    /\ run = 2
    /\ pc = "aborted"
    /\ exc = "read_edge"
    /\ terms # <<>>
    /\ outFile.exists
    /\ outFile = firstOut

----------------------------------------------------------------------------
(* C7 *)

\* C7: after a run the output path holds the complete new document or what
\* it held before the run.
C7_FullyOrNotAtAll ==
    pc \in {"done", "aborted"} =>
        \/ outFile = before
        \/ /\ payload # <<>>
           /\ outFile = [exists |-> TRUE, data |-> json_dump(payload)]

----------------------------------------------------------------------------
(* C8 *)

\* C8: a term or edge directory that is missing or holds no *.csv file gives
\* an empty sequence and no error, and the finished run wrote a document with
\* an empty list and a count of 0 for it.
C8_NoCsvGivesEmpty ==
    /\ NoCsv(fs.term) =>
          /\ exc # "read_term"
          /\ pc = "term_loop" => files = <<>>
          /\ pc \in AfterTerms => terms = <<>>
          /\ pc = "done" =>
                /\ Item(payload, "terms") = <<>>
                /\ Item(Item(payload, "counts"), "terms") = 0
    /\ NoCsv(fs.edge) =>
          /\ exc # "read_edge"
          /\ pc = "edge_loop" => files = <<>>
          /\ pc \in AfterEdges => edges = <<>>
          /\ pc = "done" =>
                /\ Item(payload, "triples") = <<>>
                /\ Item(Item(payload, "counts"), "triples") = 0
    /\ pc = "done" => outFile = [exists |-> TRUE, data |-> json_dump(payload)]

\* the run over a missing term directory is done
C8_Witness ==
    /\ pc = "done"
    /\ ~fs.term.exists
    /\ Item(Item(payload, "counts"), "terms") = 0
    /\ outFile.exists

----------------------------------------------------------------------------
(* C9 *)

\* C9: a second run over the same input files writes the same output as the
\* first, and the document has the keys counts, genes, terms, triples in this
\* order and every entity its fields in the declared order.
C9_SecondRunSameOutput ==
    /\ run = 2 /\ pc = "done" => outFile = firstOut
    /\ pc = "done" =>
          /\ outFile = [exists |-> TRUE, data |-> json_dump(payload)]
          /\ Keys(payload) = <<"counts", "genes", "terms", "triples">>
          /\ Keys(Item(payload, "counts")) = <<"genes", "terms", "triples">>
          /\ \A i \in 1..Len(genes) : Keys(Item(payload, "genes")[i]) = <<"label">>
          /\ \A i \in 1..Len(terms) : Keys(Item(payload, "terms")[i]) = <<"label">>
          /\ \A i \in 1..Len(edges) :
                Keys(Item(payload, "triples")[i]) = <<"source_label", "relation", "target_label">>

\* the second run is done over an edge directory whose two files give
\* different triples
C9_Witness ==
    /\ run = 2
    /\ pc = "done"
    /\ CsvNames(fs.edge) = {Name10csv, Name9csv}
    /\ Len(edges) = 2
    /\ edges[1] # edges[2]
    /\ Len(read_csv_rows(fs.edge.entries[Name9csv])) = 1
    /\ outFile = firstOut

----------------------------------------------------------------------------
(* C10 *)

\* C10: at every point of a load the lines printed are one line for each
\* rejected row processed so far and none for an accepted row, each with the
\* file and the 1-based index of the row in that file; the entities and the
\* lines together are as many as the rows processed; the gene rows with
\* labels (a label, "", a label) give one line, for row 2.
C10_OneLinePerBadRow ==
    /\ pc = "gene_loop" =>
          /\ stdout = Skips("gene", "Skipping invalid gene row", SubSeq(rows, 1, pos), GeneFileName)
          /\ Len(genes) + Len(stdout) = pos
    /\ pc = "term_loop" =>
          /\ LinesOf("Skipping invalid term row")
               = DoneSkips("term", "Skipping invalid term row", fs.term)
          /\ Len(terms) + Len(LinesOf("Skipping invalid term row")) = Len(DoneRows(fs.term))
    /\ pc = "edge_loop" =>
          /\ LinesOf("Skipping invalid edge row")
               = DoneSkips("edge", "Skipping invalid edge row", fs.edge)
          /\ Len(edges) + Len(LinesOf("Skipping invalid edge row")) = Len(DoneRows(fs.edge))
    /\ (/\ pc = "load_terms"
        /\ Len(rows) = 3
        /\ ~AbsentOrEmpty(Get(rows[1], "label"))
        /\ Get(rows[2], "label") = Empty
        /\ ~AbsentOrEmpty(Get(rows[3], "label"))) =>
          /\ Len(stdout) = 1
          /\ stdout[1].idx = 2
          /\ stdout[1].path = GeneFileName
          /\ genes = <<[label |-> rows[1]["label"]], [label |-> rows[3]["label"]]>>

\* the gene file with the labels " ", "" and "a" was loaded
C10_Witness ==
    /\ pc = "load_terms"
    /\ Len(rows) = 3
    /\ Get(rows[1], "label") = Blank
    /\ Get(rows[2], "label") = Empty
    /\ Get(rows[3], "label") = A
    /\ Len(stdout) = 1
    /\ stdout[1].idx = 2
    /\ genes = <<[label |-> Blank], [label |-> A]>>

====
